---- MODULE Spec2Model ----
(***************************************************************************)
(* A model of src/ann.py: a feed-forward network of Layer/Neuron objects,  *)
(* its forward pass, the back-propagation rule of Layer.calc and the       *)
(* mini-batch epoch loop of Model.fit.                                     *)
(*                                                                         *)
(* Numbers are integers.  The inputs offered (integer data and weights, a   *)
(* learning rate that every batch size divides) keep each quotient of      *)
(* update_weights exact, so on the runs followed Python's floats hold      *)
(* exactly these integers; rounding, overflow and NaN are outside the      *)
(* model.  A Python exception is the outcome "error", together with the    *)
(* partial mutations made before the raise.                                *)
(***************************************************************************)
EXTENDS Integers, Sequences, FiniteSets, TLC

\* ------------------------------------------------------------------ bounds
MaxLayers == 2
MaxSamples == 2
MaxBatch == 2
MaxIter == 2
\* the calls of one model lifetime: a first and a second fit or predict call
CallIds == {1, 2}
\* Runs are followed while the network's outputs are bounded by this much
\* (the model checker's integers are 32 bits wide).
MaxMagnitude == 1000

\* -------------------------------------------------------------- arithmetic
Abs(a) == IF a < 0 THEN -a ELSE a

\* a / b of Python, on the runs followed (b divides a)
TrueDiv(a, b) == a \div b

RECURSIVE Dot(_, _, _)
\* np.dot of two equally long vectors, summed from index k on
Dot(x, w, k) == IF k > Len(x) THEN 0 ELSE x[k] * w[k] + Dot(x, w, k + 1)

SetMin(S) == CHOOSE m \in S : \A o \in S : m <= o

\* ------------------------------------------------------ activation triple
\* activations.<name>, deltafuncs.<name>, deltacoef.<name>
activation(name, val) ==
    IF name = "relu" /\ val < 0 THEN 0 ELSE val

delta_coef(name, value) ==
    IF name = "relu" /\ value <= 0 THEN 0 ELSE 1

delta_func(name, expected, value) ==
    (value - expected) * delta_coef(name, value)

\* ------------------------------------------------------------------ Neuron
\* value_by / delta_err_by record which phase last wrote the field:
\* "init", "reset", "predict" (a forward pass outside propagate),
\* "fresh" (the running propagate call) or "old" (an earlier propagate).
Neuron(w) ==
    [ weights |-> w,
      value |-> 0, delta_err |-> 0,
      delta_weights |-> [k \in 1..Len(w) |-> 0],
      value_by |-> "init", delta_err_by |-> "init" ]

NeuronCall(neuron, act, x, tag) ==
    [neuron EXCEPT !.value = activation(act, Dot(x, neuron.weights, 1)),
                   !.value_by = tag]

NeuronResetValue(neuron) ==
    [neuron EXCEPT !.value = 0, !.value_by = "reset"]

NeuronResetDeltaErr(neuron) ==
    [neuron EXCEPT !.delta_err = 0, !.delta_err_by = "reset"]

NeuronResetDeltaWeights(neuron) ==
    [neuron EXCEPT !.delta_weights = [k \in 1..Len(neuron.weights) |-> 0]]

\* a neuron that adds its accumulators without averaging them
NeuronUpdateWeightsUndivided(neuron, batch) ==
    [neuron EXCEPT !.weights =
        [k \in 1..Len(neuron.weights) |->
            IF k <= Len(neuron.delta_weights)
            THEN neuron.weights[k] + neuron.delta_weights[k]
            ELSE neuron.weights[k]]]

NeuronUpdateWeights(neuron, batch) ==
    [neuron EXCEPT !.weights =
        [k \in 1..Len(neuron.weights) |->
            IF k <= Len(neuron.delta_weights)
            THEN neuron.weights[k] + TrueDiv(neuron.delta_weights[k], batch)
            ELSE neuron.weights[k]]]

\* ------------------------------------------------------------------- Layer
Layer(n, act, weights, bias, input_shape) ==
    [ activation |-> act,
      neurons |-> [i \in 1..n |-> Neuron(weights[i])],
      bias |-> bias,
      input_shape |-> input_shape ]

get_output_shape(layer) == Len(layer.neurons)

get_values(layer) == [j \in 1..Len(layer.neurons) |-> layer.neurons[j].value]

\* Layer.__call__: the neurons are evaluated in order; np.dot raises on the
\* first neuron whose weight vector is not as long as the input, after the
\* neurons before it have stored their value.
LayerCall(layer, x, tag) ==
    LET n == Len(layer.neurons)
        bad == {j \in 1..n : Len(layer.neurons[j].weights) # Len(x)}
        stop == IF bad = {} THEN n + 1 ELSE SetMin(bad)
        ns == [j \in 1..n |->
                 IF j < stop THEN NeuronCall(layer.neurons[j], layer.activation, x, tag)
                 ELSE layer.neurons[j]]
    IN  [ ok |-> bad = {},
          layer |-> [layer EXCEPT !.neurons = ns],
          out |-> [j \in 1..n |-> ns[j].value] ]

MapNeurons(layer, Op(_)) ==
    [layer EXCEPT !.neurons = [j \in 1..Len(layer.neurons) |-> Op(layer.neurons[j])]]

LayerResetValue(layer) == MapNeurons(layer, NeuronResetValue)
LayerResetDeltaErr(layer) == MapNeurons(layer, NeuronResetDeltaErr)
LayerResetDeltaWeights(layer) == MapNeurons(layer, NeuronResetDeltaWeights)

LayerUpdateWeights(layer, batch) ==
    LET upd(nr) == NeuronUpdateWeights(nr, batch)
    IN  MapNeurons(layer, upd)

\* Layer.calc.  The neurons are processed in order.  In the OUTPUT rule
\* expected[j] raises IndexError when the target vector is too short; in the
\* HIDDEN rule next_neuron.weights[j] raises when a next-layer weight vector
\* is too short; prev_values[k] raises when prev_values is shorter than the
\* accumulator.  Neurons before the raising one keep their update.
RECURSIVE HiddenSum(_, _, _)
HiddenSum(next_neurons, j, k) ==
    IF k > Len(next_neurons) THEN 0
    ELSE next_neurons[k].delta_err * next_neurons[k].weights[j]
         + HiddenSum(next_neurons, j, k + 1)

\* a backward step that applies its adjustment to the weights at once
NeuronBackwardOnline(neuron, derr, learning_rate, prev_values) ==
    [neuron EXCEPT
        !.delta_err = derr,
        !.delta_err_by = "fresh",
        !.weights =
            [k \in 1..Len(neuron.weights) |->
                IF k <= Len(prev_values)
                THEN neuron.weights[k] + (-learning_rate) * derr * prev_values[k]
                ELSE neuron.weights[k]]]

NeuronBackward(neuron, derr, learning_rate, prev_values) ==
    [neuron EXCEPT
        !.delta_err = derr,
        !.delta_err_by = "fresh",
        !.delta_weights =
            [k \in 1..Len(neuron.delta_weights) |->
                IF k <= Len(prev_values)
                THEN neuron.delta_weights[k]
                     + (-learning_rate) * derr * prev_values[k]
                ELSE neuron.delta_weights[k]]]

calc(layer, type, prev_values, learning_rate, expected, next_neurons) ==
    LET n == Len(layer.neurons)
        readable(j) ==
            IF type = "OUTPUT" THEN j <= Len(expected)
            ELSE \A k \in 1..Len(next_neurons) : j <= Len(next_neurons[k].weights)
        derr(j) ==
            IF type = "OUTPUT"
            THEN delta_func(layer.activation, expected[j], layer.neurons[j].value)
            ELSE delta_coef(layer.activation, layer.neurons[j].value)
                 * HiddenSum(next_neurons, j, 1)
        bad == {j \in 1..n : ~readable(j)
                             \/ Len(prev_values) < Len(layer.neurons[j].delta_weights)}
        stop == IF bad = {} THEN n + 1 ELSE SetMin(bad)
        ns == [j \in 1..n |->
                 IF j < stop \/ (j = stop /\ readable(j))
                 THEN NeuronBackward(layer.neurons[j], derr(j), learning_rate, prev_values)
                 ELSE layer.neurons[j]]
    IN  [ok |-> bad = {}, layer |-> [layer EXCEPT !.neurons = ns]]

\* ------------------------------------------------------------------- Model
add(ls, layer) ==
    IF ls # <<>>
    THEN Append(ls, [layer EXCEPT !.input_shape = get_output_shape(ls[Len(ls)])])
    ELSE Append(ls, layer)

RECURSIVE Feed(_, _, _, _)
\* the loop "for layer in self.layers: out.append(1); out = layer(out)"
Feed(ls, i, out, tag) ==
    IF i > Len(ls) THEN [ok |-> TRUE, layers |-> ls, out |-> out]
    ELSE LET r == LayerCall(ls[i], Append(out, 1), tag)
         IN  IF r.ok THEN Feed([ls EXCEPT ![i] = r.layer], i + 1, r.out, tag)
             ELSE [ok |-> FALSE, layers |-> [ls EXCEPT ![i] = r.layer], out |-> <<>>]

single_predict(ls, input, tag) == Feed(ls, 1, input, tag)

RECURSIVE ModelCallFrom(_, _, _, _)
ModelCallFrom(ls, inputs, i, outputs) ==
    IF i > Len(inputs) THEN [ok |-> TRUE, layers |-> ls, outputs |-> outputs]
    ELSE LET r == Feed(ls, 1, inputs[i], "predict")
         IN  IF r.ok THEN ModelCallFrom(r.layers, inputs, i + 1, Append(outputs, r.out))
             ELSE [ok |-> FALSE, layers |-> r.layers, outputs |-> outputs]

\* Model.__call__
ModelCall(ls, inputs) == ModelCallFrom(ls, inputs, 1, <<>>)

get_prev_values(ls, idx, inputs) ==
    IF idx = 1 THEN Append(inputs, 1)
    ELSE Append(get_values(ls[idx - 1]), 1)

MapLayers(ls, Op(_)) == [i \in 1..Len(ls) |-> Op(ls[i])]

reset_value(ls) == MapLayers(ls, LayerResetValue)
reset_delta_err(ls) == MapLayers(ls, LayerResetDeltaErr)
reset_delta_weights(ls) == MapLayers(ls, LayerResetDeltaWeights)

update_weights(ls, batch) ==
    LET upd(layer) == LayerUpdateWeights(layer, batch)
    IN  MapLayers(ls, upd)

\* What a propagate call finds written by earlier calls is no longer fresh.
Age(ls) ==
    LET old(t) == IF t = "fresh" THEN "old" ELSE t
        ageN(nr) == [nr EXCEPT !.value_by = old(nr.value_by),
                               !.delta_err_by = old(nr.delta_err_by)]
        ageL(layer) == MapNeurons(layer, ageN)
    IN  MapLayers(ls, ageL)

\* a backward pass that walks the layers from the first to the last
BackwardOrderAscending(num) == [q \in 1..num |-> q]

\* The order in which propagate visits the layers: range(num-1, -1, -1)
BackwardOrder(num) == [q \in 1..num |-> num - q + 1]

\* Does calc on layer i read a field the running propagate has not written?
ReadsStale(ls, i) ==
    \/ \E j \in 1..Len(ls[i].neurons) : ls[i].neurons[j].value_by # "fresh"
    \/ i > 1 /\ \E j \in 1..Len(ls[i - 1].neurons) :
                    ls[i - 1].neurons[j].value_by # "fresh"
    \/ i < Len(ls) /\ \E j \in 1..Len(ls[i + 1].neurons) :
                    ls[i + 1].neurons[j].delta_err_by # "fresh"

RECURSIVE Backward(_, _, _, _, _, _, _)
Backward(ls, order, q, inputs, expected, learning_rate, stale) ==
    IF q > Len(order) THEN [ok |-> TRUE, layers |-> ls, stale |-> stale]
    ELSE LET i == order[q]
             num == Len(ls)
             prev_layer_values == get_prev_values(ls, i, inputs)
             r == IF i = num
                  THEN calc(ls[i], "OUTPUT", prev_layer_values, learning_rate,
                            expected, <<>>)
                  ELSE calc(ls[i], "HIDDEN", prev_layer_values, learning_rate,
                            <<>>, ls[i + 1].neurons)
             st == stale \/ ReadsStale(ls, i)
         IN  IF r.ok
             THEN Backward([ls EXCEPT ![i] = r.layer], order, q + 1, inputs,
                           expected, learning_rate, st)
             ELSE [ok |-> FALSE, layers |-> [ls EXCEPT ![i] = r.layer], stale |-> st]

propagate(ls, inputs, expected, learning_rate) ==
    LET f == single_predict(Age(ls), inputs, "fresh")
    IN  IF f.ok
        THEN Backward(f.layers, BackwardOrder(Len(ls)), 1, inputs, expected,
                      learning_rate, FALSE)
        ELSE [ok |-> FALSE, layers |-> f.layers, stale |-> FALSE]

\* One iteration of the loop of multi_propagates
SampleStep(ls, input, expected, learning_rate) ==
    LET p == propagate(ls, input, expected, learning_rate)
    IN  IF p.ok
        THEN [ok |-> TRUE, layers |-> reset_delta_err(reset_value(p.layers)),
              stale |-> p.stale]
        ELSE p

RECURSIVE MultiFrom(_, _, _, _, _, _)
MultiFrom(ls, inputs, expected, learning_rate, i, stale) ==
    IF i > Len(inputs) THEN [ok |-> TRUE, layers |-> ls, stale |-> stale]
    ELSE IF i > Len(expected) THEN [ok |-> FALSE, layers |-> ls, stale |-> stale]
    ELSE LET r == SampleStep(ls, inputs[i], expected[i], learning_rate)
         IN  IF r.ok
             THEN MultiFrom(r.layers, inputs, expected, learning_rate, i + 1,
                            stale \/ r.stale)
             ELSE [r EXCEPT !.stale = stale \/ r.stale]

multi_propagates(ls, inputs, expected, learning_rate) ==
    MultiFrom(ls, inputs, expected, learning_rate, 1, FALSE)

RECURSIVE SquaredErr(_, _, _)
SquaredErr(out, exp, j) ==
    IF j > Len(out) THEN 0
    ELSE (out[j] - exp[j]) * (out[j] - exp[j]) + SquaredErr(out, exp, j + 1)

RECURSIVE TotalFrom(_, _, _)
TotalFrom(res, expected, i) ==
    IF i > Len(res) THEN 0
    ELSE SquaredErr(res[i], expected[i], 1) + TotalFrom(res, expected, i + 1)

\* calc_total_err: the forward pass over all inputs, then the sum; expected[i][j]
\* raises IndexError when expected is shorter than the results.
calc_total_err(ls, inputs, expected) ==
    LET r == ModelCall(ls, inputs)
        readable == /\ r.ok
                    /\ \A i \in 1..Len(r.outputs) :
                          /\ i <= Len(expected)
                          /\ Len(r.outputs[i]) = 0 \/ Len(r.outputs[i]) <= Len(expected[i])
    IN  [ ok |-> readable,
          layers |-> r.layers,
          total_err |-> IF readable THEN TotalFrom(r.outputs, expected, 1) ELSE 0 ]

\* --------------------------------------------------------- Model.fit steps
\* range(0, num, batch_size): is offset still inside the range?
RangeHas(offset, stop, step) == IF step > 0 THEN offset < stop ELSE offset > stop

\* min(j + batch_size, num)
ChunkBound(offset, batch, num) == IF offset + batch < num THEN offset + batch ELSE num

\* permut[j:bound]
\* a chunk loop that slices every chunk from the head of the permutation
BatchIndicesFromHead(perm, offset, bound) == SubSeq(perm, 1, bound - offset)

BatchIndices(perm, offset, bound) == SubSeq(perm, offset + 1, bound)

\* [inputs[i] for i in batch_indices]; an index past the end raises IndexError
Gather(data, indices) ==
    [ ok |-> \A q \in 1..Len(indices) : indices[q] + 1 <= Len(data),
      items |-> [q \in 1..Len(indices) |->
                   IF indices[q] + 1 <= Len(data) THEN data[indices[q] + 1] ELSE <<>>] ]

\* the divisor fit hands to update_weights for a chunk
UpdateDivisor(batch, chunk_len) == batch

\* total_err < self.error_threshold
\* a threshold test that also stops on an error equal to the threshold
ConvergedNotStrict(total_err, threshold) == total_err <= threshold

Converged(total_err, threshold) == total_err < threshold

\* np.random.permutation(num): any order of 0..num-1
Perms(num) ==
    {p \in [1..num -> 0..(num - 1)] : \A a, b \in 1..num : a # b => p[a] # p[b]}

\* ------------------------------------------------------------ input menus
\* Layer(...) constructor arguments offered to Model.add
LayerMenu ==
    { [neurons |-> 1, activation |-> "linear", weights |-> << <<1, 0>> >>,
       bias |-> 1, input_shape |-> 1],
      [neurons |-> 2, activation |-> "relu",
       weights |-> << <<1, 1>>, <<-1, 1>> >>,
       bias |-> 1, input_shape |-> 1],
      [neurons |-> 1, activation |-> "linear", weights |-> << <<1, 0, 1>> >>,
       bias |-> 2, input_shape |-> 2] }

\* a learning rate that every batch size of the model divides
RECURSIVE LcmUpTo(_, _)
LcmUpTo(n, m) ==
    IF n <= 1 THEN m
    ELSE LcmUpTo(n - 1, CHOOSE c \in 1..(m * n) :
                           /\ c % m = 0 /\ c % n = 0
                           /\ \A e \in 1..(c - 1) : ~(e % m = 0 /\ e % n = 0))

LearningRates == {LcmUpTo(MaxBatch, 1)}
Thresholds == {16}
DataKinds ==
    {"ok", "copies", "few_expected", "long_input", "short_target", "long_target"}

InDim(ls) == IF ls = <<>> THEN 1 ELSE ls[1].input_shape
OutDim(ls) == IF ls = <<>> THEN 1 ELSE Len(ls[Len(ls)].neurons)

\* the k-th sample of the pool, for the given dimensions; a data set of kind
\* "copies" repeats the first sample, the malformed kinds spoil the last one
PoolInput(k, dim) == [d \in 1..dim |-> (k + d) % 2]
PoolTarget(k, dim) == [d \in 1..dim |-> k % 2]

DataInputs(ls, n, kind) ==
    [k \in 1..n |->
        IF kind = "long_input" /\ k = n THEN PoolInput(k, InDim(ls) + 1)
        ELSE IF kind = "copies" THEN PoolInput(1, InDim(ls))
        ELSE PoolInput(k, InDim(ls))]

DataExpected(ls, n, kind) ==
    [k \in 1..(IF kind = "few_expected" THEN n - 1 ELSE n) |->
        IF kind = "short_target" /\ k = n THEN PoolTarget(k, OutDim(ls) - 1)
        ELSE IF kind = "long_target" /\ k = n THEN PoolTarget(k, OutDim(ls) + 1)
        ELSE IF kind = "copies" THEN PoolTarget(1, OutDim(ls))
        ELSE PoolTarget(k, OutDim(ls))]

\* ------------------------------------------------------------------- state
VARIABLES
    layers,           \* Model.layers
    learning_rate, batch_size, max_iteration, error_threshold,
    pc,               \* where the running call stands
    lastcall,         \* "none", "fit" or "predict"
    fit_inputs, fit_expected,   \* the arguments of the running/last call
    iter,             \* i of fit's epoch loop
    permut, offset,   \* permut and j of fit's chunk loop
    batch_indices, cur_inputs, cur_expected,
    done,             \* samples of the chunk multi_propagates has processed
    result,           \* "none", a StopReason, "predicted" or "error"
    printed,          \* the total errors fit has printed, one per epoch
    outputs,          \* what the last predict call returned
    calls,            \* fit/predict calls made so far
    pre,              \* history: layers when the running/last call started
    staleRead,        \* history: some calc read a field not written by its propagate
    log               \* history: what the running epoch has done so far

vars == << layers, learning_rate, batch_size, max_iteration, error_threshold,
           pc, lastcall, fit_inputs, fit_expected, iter, permut, offset,
           batch_indices, cur_inputs, cur_expected, done, result, printed,
           outputs, calls, pre, staleRead, log >>

hyper == << learning_rate, batch_size, max_iteration, error_threshold >>
chunk == << batch_indices, cur_inputs, cur_expected, done >>
args == << fit_inputs, fit_expected >>

\* The numeric range of the model.  With inputs in {0, 1} and the bias input 1,
\* no value of the network exceeds OutputBound; a run is followed while that
\* bound is small and the batch size divides every accumulator.  A run that
\* leaves the range is dropped; "out_of_range" is no outcome of the program.
RECURSIVE AbsSum(_, _)
AbsSum(w, k) == IF k > Len(w) THEN 0 ELSE Abs(w[k]) + AbsSum(w, k + 1)

RECURSIVE OutputBound(_, _)
OutputBound(ls, l) ==
    IF l = 0 THEN 1
    ELSE LET sums == {AbsSum(ls[l].neurons[n].weights, 1) : n \in 1..Len(ls[l].neurons)}
             gain == CHOOSE g \in sums \cup {1} : \A o \in sums \cup {1} : o <= g
             below == OutputBound(ls, l - 1)
         IN  IF below > MaxMagnitude THEN below ELSE gain * below

InRange(ls, batch) ==
    /\ OutputBound(ls, Len(ls)) <= MaxMagnitude
    /\ \A l \in 1..Len(ls) : \A n \in 1..Len(ls[l].neurons) :
          \A k \in 1..Len(ls[l].neurons[n].delta_weights) :
              batch > 0 => ls[l].neurons[n].delta_weights[k] % batch = 0

Followed == InRange(layers, batch_size)

LeaveRange ==
    /\ pc # "idle" /\ ~Followed
    /\ pc' = "idle" /\ result' = "out_of_range"
    /\ UNCHANGED << layers, hyper, lastcall, args, iter, permut, offset, chunk,
                    printed, outputs, calls, pre, staleRead, log >>

Init ==
    /\ layers = <<>>
    /\ learning_rate \in LearningRates
    /\ batch_size \in -1..MaxBatch
    /\ max_iteration \in 0..MaxIter
    /\ error_threshold \in Thresholds
    /\ pc = "idle" /\ lastcall = "none"
    /\ fit_inputs = <<>> /\ fit_expected = <<>>
    /\ iter = 0 /\ permut = <<>> /\ offset = 0
    /\ batch_indices = <<>> /\ cur_inputs = <<>> /\ cur_expected = <<>> /\ done = 0
    /\ result = "none" /\ printed = <<>> /\ outputs = <<>>
    /\ calls = 0 /\ pre = <<>> /\ staleRead = FALSE /\ log = <<>>

\* model.add(Layer(...)), while the model is being assembled
Add ==
    /\ pc = "idle" /\ calls = 0 /\ Len(layers) < MaxLayers
    /\ \E a \in LayerMenu :
          layers' = add(layers, Layer(a.neurons, a.activation, a.weights, a.bias,
                                      a.input_shape))
    /\ UNCHANGED << hyper, pc, lastcall, args, iter, permut, offset, chunk, result,
                    printed, outputs, calls, pre, staleRead, log >>

\* fit(inputs, expected) is entered
FitCall ==
    /\ pc = "idle" /\ calls + 1 \in CallIds /\ Followed
    /\ \E n \in 0..MaxSamples, kind \in DataKinds :
          /\ kind \notin {"ok", "copies"} => n = MaxSamples
          /\ kind = "copies" => n >= 2
          /\ fit_inputs' = DataInputs(layers, n, kind)
          /\ fit_expected' = DataExpected(layers, n, kind)
    /\ pc' = "epoch" /\ lastcall' = "fit" /\ calls' = calls + 1
    /\ iter' = 0 /\ permut' = <<>> /\ offset' = 0
    /\ batch_indices' = <<>> /\ cur_inputs' = <<>> /\ cur_expected' = <<>> /\ done' = 0
    /\ result' = "none" /\ printed' = <<>> /\ log' = <<>>
    /\ pre' = layers
    /\ UNCHANGED << layers, hyper, outputs, staleRead >>

\* for i in range(self.max_iteration): permut = ...; for j in range(0, num, batch_size)
\* range() raises ValueError for a step of zero.
EpochStart ==
    /\ pc = "epoch" /\ iter < max_iteration /\ Followed
    /\ \E p \in Perms(Len(fit_inputs)) : permut' = p
    /\ offset' = 0 /\ log' = <<>>
    /\ IF batch_size = 0
       THEN pc' = "idle" /\ result' = "error"
       ELSE pc' = "chunk" /\ result' = result
    /\ UNCHANGED << layers, hyper, lastcall, args, iter, chunk, printed, outputs,
                    calls, pre, staleRead >>

\* the epoch loop is exhausted: return StopReason.MAX_ITERATIONS
ReturnMaxIterations ==
    /\ pc = "epoch" /\ ~(iter < max_iteration) /\ Followed
    /\ pc' = "idle" /\ result' = "MAX_ITERATIONS"
    /\ UNCHANGED << layers, hyper, lastcall, args, iter, permut, offset, chunk,
                    printed, outputs, calls, pre, staleRead, log >>

\* head of the chunk loop: slice the permutation and gather the chunk
ChunkStart ==
    /\ pc = "chunk" /\ RangeHas(offset, Len(fit_inputs), batch_size) /\ Followed
    /\ LET bound == ChunkBound(offset, batch_size, Len(fit_inputs))
           idx == BatchIndices(permut, offset, bound)
           gi == Gather(fit_inputs, idx)
           ge == Gather(fit_expected, idx)
       IN  /\ batch_indices' = idx
           /\ cur_inputs' = gi.items
           /\ cur_expected' = ge.items
           /\ IF gi.ok /\ ge.ok
              THEN pc' = "sample" /\ result' = result
              ELSE pc' = "idle" /\ result' = "error"
    /\ done' = 0
    /\ UNCHANGED << layers, hyper, lastcall, args, iter, permut, offset, printed,
                    outputs, calls, pre, staleRead, log >>

\* one iteration of multi_propagates: propagate, reset_value, reset_delta_err
Sample ==
    /\ pc = "sample" /\ done < Len(cur_inputs) /\ Followed
    /\ LET r == SampleStep(layers, cur_inputs[done + 1], cur_expected[done + 1],
                           learning_rate)
       IN  /\ layers' = r.layers
           /\ staleRead' = (staleRead \/ r.stale)
           /\ IF r.ok
              THEN /\ pc' = pc /\ result' = result /\ done' = done + 1
                   /\ log' = Append(log, [op |-> "propagate",
                                          index |-> batch_indices[done + 1],
                                          input |-> cur_inputs[done + 1],
                                          expected |-> cur_expected[done + 1]])
              ELSE /\ pc' = "idle" /\ result' = "error" /\ done' = done /\ log' = log
    /\ UNCHANGED << hyper, lastcall, args, iter, permut, offset, batch_indices,
                    cur_inputs, cur_expected, printed, outputs, calls, pre >>

\* self.update_weights(self.batch_size)
UpdateWeights ==
    /\ pc = "sample" /\ done = Len(cur_inputs) /\ Followed
    /\ layers' = update_weights(layers, UpdateDivisor(batch_size, Len(cur_inputs)))
    /\ pc' = "reset"
    /\ log' = Append(log, [op |-> "update_weights"])
    /\ UNCHANGED << hyper, lastcall, args, iter, permut, offset, chunk, result,
                    printed, outputs, calls, pre, staleRead >>

\* self.reset_delta_weights(), then the chunk loop advances
ResetDeltaWeights ==
    /\ pc = "reset" /\ Followed
    /\ layers' = reset_delta_weights(layers)
    /\ offset' = offset + batch_size
    /\ pc' = "chunk"
    /\ log' = Append(log, [op |-> "reset_delta_weights"])
    /\ UNCHANGED << hyper, lastcall, args, iter, permut, chunk, result, printed,
                    outputs, calls, pre, staleRead >>

\* the chunk loop is over: calc_total_err, print, test the threshold
TotalErr ==
    /\ pc = "chunk" /\ ~RangeHas(offset, Len(fit_inputs), batch_size) /\ Followed
    /\ LET r == calc_total_err(layers, fit_inputs, fit_expected)
       IN  /\ layers' = r.layers
           /\ IF ~r.ok
              THEN pc' = "idle" /\ result' = "error" /\ printed' = printed /\ iter' = iter
              ELSE /\ printed' = Append(printed, r.total_err)
                   /\ IF Converged(r.total_err, error_threshold)
                      THEN pc' = "idle" /\ result' = "CONVERGENCE" /\ iter' = iter
                      ELSE pc' = "epoch" /\ result' = result /\ iter' = iter + 1
    /\ UNCHANGED << hyper, lastcall, args, permut, offset, chunk, outputs, calls,
                    pre, staleRead, log >>

\* model(inputs): batched inference
PredictCall ==
    /\ pc = "idle" /\ calls + 1 \in CallIds /\ Followed
    /\ \E n \in 0..MaxSamples, kind \in {"ok", "long_input"} :
          /\ kind # "ok" => n = MaxSamples
          /\ LET r == ModelCall(layers, DataInputs(layers, n, kind))
             IN  /\ fit_inputs' = DataInputs(layers, n, kind)
                 /\ layers' = r.layers
                 /\ outputs' = r.outputs
                 /\ result' = IF r.ok THEN "predicted" ELSE "error"
    /\ fit_expected' = <<>>
    /\ lastcall' = "predict" /\ calls' = calls + 1
    /\ pre' = layers
    /\ UNCHANGED << hyper, pc, iter, permut, offset, chunk, printed, staleRead, log >>

Next ==
    \/ Add \/ FitCall \/ PredictCall
    \/ EpochStart \/ ReturnMaxIterations \/ ChunkStart \/ Sample
    \/ UpdateWeights \/ ResetDeltaWeights \/ TotalErr
    \/ LeaveRange

Spec == Init /\ [][Next]_vars

\* ================================================================= claims
StopReasons == {"CONVERGENCE", "MAX_ITERATIONS"}

\* what the program stores in a neuron (the history tags left out)
Stored(nr) ==
    [weights |-> nr.weights, value |-> nr.value, delta_err |-> nr.delta_err,
     delta_weights |-> nr.delta_weights]

StoredIn(ls) ==
    [l \in 1..Len(ls) |-> [n \in 1..Len(ls[l].neurons) |-> Stored(ls[l].neurons[n])]]

WeightsIn(ls) ==
    [l \in 1..Len(ls) |-> [n \in 1..Len(ls[l].neurons) |-> ls[l].neurons[n].weights]]

DeltaWeightsIn(ls) ==
    [l \in 1..Len(ls) |->
        [n \in 1..Len(ls[l].neurons) |-> ls[l].neurons[n].delta_weights]]

ShapeOK(ls) ==
    \A l \in 1..Len(ls) : \A n \in 1..Len(ls[l].neurons) :
        Len(ls[l].neurons[n].weights) = ls[l].input_shape + 1

\* the training set of the running/last fit call is as section 6 of the
\* specification asks: parallel sequences, vectors of the model's dimensions
TrainingSetOK ==
    /\ Len(fit_inputs) = Len(fit_expected)
    /\ \A k \in 1..Len(fit_inputs) : Len(fit_inputs[k]) = InDim(layers)
    /\ \A k \in 1..Len(fit_expected) : Len(fit_expected[k]) = OutDim(layers)

\* ---------------------------------------------------------------- C2
\* C2: after any sequence of Model.add calls, and after any fit/predict calls,
\* every neuron's weight vector is input_shape + 1 long.
C2_ShapeInvariant == ShapeOK(layers)

\* ---------------------------------------------------------------- C5
\* the forward pass the claim describes: layer i is fed its own bias constant
RECURSIVE FeedLayerBias(_, _, _)
FeedLayerBias(ls, i, out) ==
    IF i > Len(ls) THEN out
    ELSE FeedLayerBias(ls, i + 1,
            [j \in 1..Len(ls[i].neurons) |->
                activation(ls[i].activation,
                           Dot(Append(out, ls[i].bias), ls[i].neurons[j].weights, 1))])

\* C5: the value appended to the vector fed into layer i is layer i's bias
\* constant, so a prediction equals the forward pass that feeds each layer its
\* own bias.
C5_BiasInput ==
    (lastcall = "predict" /\ result = "predicted" /\ ShapeOK(layers))
        => \A k \in 1..Len(outputs) : outputs[k] = FeedLayerBias(pre, 1, fit_inputs[k])

\* ---------------------------------------------------------------- C6
\* C6: for every chunk fit processes, the change applied to each weight is the
\* chunk's accumulated delta_weights divided by the number of samples in that
\* chunk.
C6_ChunkAverage ==
    [][(pc = "sample" /\ pc' = "reset")
        => \A l \in 1..Len(layers) : \A n \in 1..Len(layers[l].neurons) :
             \A k \in 1..Len(layers[l].neurons[n].weights) :
                (layers'[l].neurons[n].weights[k] - layers[l].neurons[n].weights[k])
                    * Len(cur_inputs)
                = layers[l].neurons[n].delta_weights[k]]_vars

\* ---------------------------------------------------------------- C3
ConfigError ==
    \/ batch_size <= 0
    \/ ~TrainingSetOK

\* C3: a fit call with a configuration error fails at its start: it never
\* returns a StopReason and leaves every neuron's weights, value, delta_err
\* and delta_weights as they were.  (Stated for calls on a model with layers
\* that are asked to run at least one epoch.)
C3_EagerErrors ==
    (lastcall = "fit" /\ ConfigError /\ Len(layers) > 0 /\ max_iteration > 0
        /\ result # "out_of_range")
        => /\ StoredIn(layers) = StoredIn(pre)
           /\ result \notin StopReasons

\* ---------------------------------------------------------------- C7
\* the accumulators a clean start gives after the first k samples of the chunk
CleanAccumulation(k) ==
    DeltaWeightsIn(multi_propagates(reset_delta_weights(layers),
                                    SubSeq(cur_inputs, 1, k),
                                    SubSeq(cur_expected, 1, k),
                                    learning_rate).layers)

\* C7: in every fit run delta_weights is all zeros at the start of each chunk,
\* and after the k-th sample of a chunk every value and delta_err is 0 and
\* delta_weights is the sum of the k contributions of that chunk.
C7_AccumulateThenReset ==
    (lastcall = "fit" /\ pc = "sample")
        => /\ DeltaWeightsIn(layers) = CleanAccumulation(done)
           /\ done > 0 =>
                \A l \in 1..Len(layers) : \A n \in 1..Len(layers[l].neurons) :
                    /\ layers[l].neurons[n].value = 0
                    /\ layers[l].neurons[n].delta_err = 0

\* ---------------------------------------------------------------- C8
Descending(order) ==
    /\ \A q \in 1..Len(order) : order[q] = Len(order) - q + 1

\* C8: every propagate call visits the layers strictly from the last to the
\* first, and no calc of any propagate call so far has read a value or a
\* delta_err that the same propagate call had not written before.
C8_NoStaleRead ==
    /\ Descending(BackwardOrder(Len(layers)))
    /\ staleRead = FALSE

\* a later sample of a later epoch has been propagated through two layers
C8_Witness ==
    /\ Len(layers) = 2 /\ lastcall = "fit" /\ pc = "sample"
    /\ iter >= 1 /\ done >= 1 /\ staleRead = FALSE

\* ---------------------------------------------------------------- C9
UpdateStep == pc = "sample" /\ pc' = "reset"

\* C9: the weights of a neuron change only in the update_weights step after a
\* chunk; every other step (predict, propagate, the resets, calc_total_err)
\* leaves them alone, and the update_weights step leaves delta_weights alone.
C9_WeightsFrame ==
    [][/\ ~UpdateStep =>
            \A l \in 1..Len(layers) :
                /\ l <= Len(layers')
                /\ WeightsIn(layers')[l] = WeightsIn(layers)[l]
       /\ UpdateStep => DeltaWeightsIn(layers') = DeltaWeightsIn(layers)]_vars

\* update_weights has just changed the weights and kept the accumulators
C9_Witness ==
    /\ pc = "reset" /\ Len(cur_inputs) > 1
    /\ WeightsIn(layers) # WeightsIn(pre)
    /\ DeltaWeightsIn(layers) # DeltaWeightsIn(reset_delta_weights(layers))

\* ---------------------------------------------------------------- C10
\* what an epoch does, read off its log: sample indices and the two chunk ends
Shape(rec) == IF rec.op = "propagate" THEN << "propagate", rec.index >> ELSE << rec.op >>

RECURSIVE PartitionLog(_, _)
PartitionLog(p, size) ==
    IF p = << >> THEN << >>
    ELSE LET k == IF size < Len(p) THEN size ELSE Len(p)
         IN  [q \in 1..k |-> << "propagate", p[q] >>]
             \o << << "update_weights" >>, << "reset_delta_weights" >> >>
             \o PartitionLog(SubSeq(p, k + 1, Len(p)), size)

IsPermutation(p, num) ==
    /\ Len(p) = num
    /\ \A v \in 0..(num - 1) : \E q \in 1..num : p[q] = v

Updates(l) == Cardinality({q \in 1..Len(l) : l[q].op = "update_weights"})

EpochOver == pc = "chunk" /\ offset >= Len(fit_inputs)

\* C10: with batch_size > 0, what an epoch of fit has done so far is always the
\* beginning of: one permutation of 0..N-1 cut into consecutive chunks of at
\* most batch_size indices, each chunk's samples propagated once and followed by
\* one update_weights and one reset_delta_weights; a finished epoch has done all
\* of it, in ceil(N / batch_size) chunks; every propagated input went with the
\* expected vector of the same index.
C10_EpochPartition ==
    (lastcall = "fit" /\ batch_size > 0 /\ pc \in {"chunk", "sample", "reset"})
        => LET full == PartitionLog(permut, batch_size)
               num == Len(fit_inputs)
           IN  /\ IsPermutation(permut, num)
               /\ Len(log) <= Len(full)
               /\ \A q \in 1..Len(log) : Shape(log[q]) = full[q]
               /\ \A q \in 1..Len(log) :
                     log[q].op = "propagate" =>
                        /\ log[q].input = fit_inputs[log[q].index + 1]
                        /\ log[q].expected = fit_expected[log[q].index + 1]
               /\ EpochOver =>
                     /\ Len(log) = Len(full)
                     /\ Updates(log) = (num + batch_size - 1) \div batch_size

\* a second epoch over two samples in two chunks is over
C10_Witness ==
    /\ lastcall = "fit" /\ batch_size = 1 /\ Len(fit_inputs) = 2 /\ Len(layers) > 0
    /\ iter >= 1 /\ EpochOver /\ Updates(log) = 2

\* ---------------------------------------------------------------- C4
\* What fit does with one chunk: multi_propagates, update_weights(divisor),
\* reset_delta_weights.
BatchStep(ls, inputs, expected, rate, divisor) ==
    LET m == multi_propagates(ls, inputs, expected, rate)
    IN  [ok |-> m.ok,
         layers |-> reset_delta_weights(update_weights(m.layers, divisor))]

ZeroAccumulators(ls) == DeltaWeightsIn(ls) = DeltaWeightsIn(reset_delta_weights(ls))

AllSame(xs) == \A q \in 1..Len(xs) : xs[q] = xs[1]

\* fit has just finished its first chunk, which held batch_size copies of one
\* (input, expected) pair and started from zeroed accumulators
IdenticalBatchDone ==
    /\ lastcall = "fit" /\ pc = "chunk" /\ iter = 0
    /\ batch_size > 0 /\ offset = batch_size /\ Len(cur_inputs) = batch_size
    /\ AllSame(cur_inputs) /\ AllSame(cur_expected)
    /\ ZeroAccumulators(pre)

ReturnsAsClaimed ==
    /\ result = "CONVERGENCE" =>
          /\ printed # << >>
          /\ printed[Len(printed)] < error_threshold
    /\ result = "MAX_ITERATIONS" =>
          /\ Len(printed) = max_iteration
          /\ \A q \in 1..Len(printed) : printed[q] >= error_threshold

FitReturned == lastcall = "fit" /\ pc = "idle" /\ result # "out_of_range"

EpochCost == 4 * Len(fit_inputs) + 2

Remaining == IF offset < Len(fit_inputs) THEN Len(fit_inputs) - offset ELSE 0

StepsLeft ==
    LET later == (max_iteration - iter - 1) * EpochCost + 1
    IN  IF pc = "epoch" THEN (max_iteration - iter) * EpochCost + 1
        ELSE IF pc = "chunk" THEN later + 4 * Remaining + 1
        ELSE IF pc = "sample" THEN later + 4 * Remaining - done
        ELSE IF pc = "reset" THEN later + 4 * Remaining - Len(cur_inputs) - 1
        ELSE 0

FitOutcome ==
    (lastcall = "fit" /\ batch_size > 0)
        => /\ StepsLeft >= 0
           /\ FitReturned => result \in StopReasons \cup {"error"}
           /\ result = "error" => ~TrainingSetOK \/ ~ShapeOK(layers)
           /\ ReturnsAsClaimed

====
